---- MODULE Spec2Model ----
(***************************************************************************)
(* A model of the gemini-pydantic library pipeline: the markdown-fence     *)
(* cleaner (utils/json_cleaner.py), the Book and Library schema            *)
(* (models/library.py), the DataProcessor workflow                         *)
(* (services/data_processor.py) and the JSON file helpers                  *)
(* (utils/file_manager.py).                                                *)
(*                                                                         *)
(* Text is a sequence of one-character strings, so str.strip, startswith,  *)
(* endswith and slicing are computed character by character.               *)
(***************************************************************************)
EXTENDS Integers, Sequences, FiniteSets, TLC

VARIABLES
    op,      \* the operation that ran last ("init" before any)
    arg,     \* the argument it was called with
    ret,     \* what it returned, or the exception it raised
    out,     \* the lines it printed
    book,    \* a Book object held by the caller (None before construction)
    lib,     \* a Library object held by the caller (None before one exists)
    files,   \* the output directory: filename -> file content, or NoFile
    calls    \* number of generate_content requests issued by the last call

vars == <<op, arg, ret, out, book, lib, files, calls>>

(***************************************************************************)
(* Bounds of the model.                                                    *)
(***************************************************************************)
MaxPieces == 2

MaxBooks == 2

(***************************************************************************)
(* Python values that are not text.                                        *)
(***************************************************************************)
None == [none |-> TRUE]

\* A call that returned v, and one that returned None.
Returned(v) == [ok |-> TRUE, none |-> FALSE, v |-> v]

ReturnedNone == [ok |-> TRUE, none |-> TRUE, v |-> None]

\* An exception of class cls; msg is a record whose field text is the message.
Raised(cls, msg) == [ok |-> FALSE, exc |-> cls, msg |-> msg]

Msg(text) == [text |-> text]

\* except <handler>: an exception is caught by a handler for its class or for
\* a base class.  json.JSONDecodeError derives from ValueError, pydantic's
\* ValidationError too; every one derives from Exception.
IsSubclass(cls, handler) ==
    \/ handler = cls
    \/ handler = "Exception"
    \/ handler = "ValueError" /\ cls \in {"JSONDecodeError", "ValidationError"}

\* F applied to the value of x, with x evaluated once (a local variable).
Bind(x, F(_)) == CHOOSE r \in { F(v) : v \in {x} } : TRUE

(***************************************************************************)
(* str operations.                                                         *)
(***************************************************************************)
IsSpace(c) == c \in {" ", "\n", "\t", "\r"}

RECURSIVE LStrip(_)
LStrip(s) ==
    IF s # <<>> /\ IsSpace(Head(s)) THEN LStrip(Tail(s)) ELSE s

RECURSIVE RStrip(_)
RStrip(s) ==
    IF s # <<>> /\ IsSpace(s[Len(s)]) THEN RStrip(SubSeq(s, 1, Len(s) - 1)) ELSE s

Strip(s) == RStrip(LStrip(s))

StartsWith(s, p) == Len(s) >= Len(p) /\ SubSeq(s, 1, Len(p)) = p

EndsWith(s, p) == Len(s) >= Len(p) /\ SubSeq(s, Len(s) - Len(p) + 1, Len(s)) = p

\* the slice s[k:]
SliceFrom(s, k) == SubSeq(s, k + 1, Len(s))

\* the slice s[:-k]
SliceToLast(s, k) == SubSeq(s, 1, Len(s) - k)

RECURSIVE Concat(_)
Concat(ss) == IF ss = <<>> THEN <<>> ELSE Head(ss) \o Concat(Tail(ss))

(***************************************************************************)
(* JSONCleaner.clean_json_response                                         *)
(***************************************************************************)
\* The backquote character (the lexer does not take it in a string literal).
Tick == "BACKQUOTE"

FenceJson == <<Tick, Tick, Tick, "j", "s", "o", "n">>

Fence == <<Tick, Tick, Tick>>

StripLeadingFenceBareFirst(cleaned) ==
    IF StartsWith(cleaned, Fence) THEN SliceFrom(cleaned, 3)
    ELSE IF StartsWith(cleaned, FenceJson) THEN SliceFrom(cleaned, 7)
    ELSE cleaned

StripLeadingFence(cleaned) ==
    IF StartsWith(cleaned, FenceJson) THEN SliceFrom(cleaned, 7)
    ELSE IF StartsWith(cleaned, Fence) THEN SliceFrom(cleaned, 3)
    ELSE cleaned

StripTrailingFenceAlways(cleaned) == SliceToLast(cleaned, 3)

StripTrailingFence(cleaned) ==
    IF EndsWith(cleaned, Fence) THEN SliceToLast(cleaned, 3) ELSE cleaned

clean_json_response(response_text) ==
    IF response_text = <<>>
    THEN Raised("ValueError", Msg("Response text is empty"))
    ELSE Returned(Strip(StripTrailingFence(StripLeadingFence(Strip(response_text)))))

(***************************************************************************)
(* JSON values, as json.loads and pydantic's JSON reader produce them.     *)
(* An object is the sequence of its members in document order.             *)
(***************************************************************************)
JNull == [t |-> "null"]

JBool(b) == [t |-> "bool", b |-> b]

JInt(n) == [t |-> "int", n |-> n]

JStr(s) == [t |-> "str", s |-> s]

JArr(a) == [t |-> "arr", a |-> a]

JObj(o) == [t |-> "obj", o |-> o]

Member(k, v) == [k |-> k, v |-> v]

Quote == "\""

Backslash == "\\"

Digits == <<"0", "1", "2", "3", "4", "5", "6", "7", "8", "9">>

IsDigit(c) == \E d \in 1..10 : Digits[d] = c

DigitVal(c) == (CHOOSE d \in 1..10 : Digits[d] = c) - 1

(***************************************************************************)
(* The JSON reader: a recursive-descent parser over the characters.  Every *)
(* parse step returns [ok, v, i]: whether it succeeded, the value read and *)
(* the index of the next unread character (on failure, where it failed).   *)
(***************************************************************************)
ParseOk(v, i) == [ok |-> TRUE, v |-> v, i |-> i]

ParseFail(i) == [ok |-> FALSE, v |-> JNull, i |-> i]

RECURSIVE SkipWs(_, _)
SkipWs(s, i) == IF i <= Len(s) /\ IsSpace(s[i]) THEN SkipWs(s, i + 1) ELSE i

RECURSIVE ScanDigits(_, _, _)
ScanDigits(s, i, acc) ==
    IF i <= Len(s) /\ IsDigit(s[i])
    THEN ScanDigits(s, i + 1, 10 * acc + DigitVal(s[i]))
    ELSE [n |-> acc, i |-> i]

\* An integer literal: -? (0 | [1-9][0-9]*), not followed by a fraction or exponent.
ParseNumber(s, i) ==
    LET neg == s[i] = "-"
        j == IF neg THEN i + 1 ELSE i
    IN  IF j > Len(s) \/ ~IsDigit(s[j]) THEN ParseFail(j)
        ELSE Bind(ScanDigits(s, j, 0), LAMBDA d :
                 IF s[j] = "0" /\ d.i > j + 1 THEN ParseFail(j + 1)
                 ELSE IF d.i <= Len(s) /\ s[d.i] \in {".", "e", "E"} THEN ParseFail(d.i)
                 ELSE ParseOk(JInt(IF neg THEN 0 - d.n ELSE d.n), d.i))

\* The characters of a string literal after its opening quote.
RECURSIVE ScanString(_, _, _)
ScanString(s, i, acc) ==
    IF i > Len(s) THEN ParseFail(i)
    ELSE IF s[i] = Quote THEN ParseOk(JStr(acc), i + 1)
    ELSE IF s[i] \in {"\n", "\t", "\r"} THEN ParseFail(i)
    ELSE IF s[i] = Backslash
         THEN IF i + 1 > Len(s) THEN ParseFail(i + 1)
              ELSE IF s[i + 1] \in {Quote, Backslash, "/"}
                   THEN ScanString(s, i + 2, Append(acc, s[i + 1]))
              ELSE IF s[i + 1] = "n" THEN ScanString(s, i + 2, Append(acc, "\n"))
              ELSE IF s[i + 1] = "t" THEN ScanString(s, i + 2, Append(acc, "\t"))
              ELSE IF s[i + 1] = "r" THEN ScanString(s, i + 2, Append(acc, "\r"))
              ELSE ParseFail(i + 1)
    ELSE ScanString(s, i + 1, Append(acc, s[i]))

ParseLiteral(s, i, word, v) ==
    IF i + Len(word) - 1 <= Len(s) /\ SubSeq(s, i, i + Len(word) - 1) = word
    THEN ParseOk(v, i + Len(word))
    ELSE ParseFail(i)

RECURSIVE ParseValue(_, _)
RECURSIVE ParseElements(_, _, _)
RECURSIVE ParseMembers(_, _, _)

\* The elements of an array after "[" or ",": value, then "," or "]".
ParseElements(s, i, acc) ==
    Bind(ParseValue(s, i), LAMBDA e :
      Bind(SkipWs(s, e.i), LAMBDA j :
        IF ~e.ok THEN e
        ELSE IF j > Len(s) THEN ParseFail(j)
        ELSE IF s[j] = "," THEN ParseElements(s, j + 1, Append(acc, e.v))
        ELSE IF s[j] = "]" THEN ParseOk(JArr(Append(acc, e.v)), j + 1)
        ELSE ParseFail(j)))

\* "key" at or after i, then ":"; [ok, v, i] with v the key and i the index
\* after the colon.
ParseKey(s, i) ==
    Bind(SkipWs(s, i), LAMBDA k0 :
      IF k0 > Len(s) \/ s[k0] # Quote THEN ParseFail(k0)
      ELSE Bind(ScanString(s, k0 + 1, <<>>), LAMBDA k :
             Bind(SkipWs(s, k.i), LAMBDA c :
               IF ~k.ok THEN k
               ELSE IF c > Len(s) \/ s[c] # ":" THEN ParseFail(c)
               ELSE ParseOk(k.v.s, c + 1))))

\* The members of an object after "{" or ",": "key" : value, then "," or "}".
ParseMembers(s, i, acc) ==
    Bind(ParseKey(s, i), LAMBDA k :
      IF ~k.ok THEN k
      ELSE Bind(ParseValue(s, k.i), LAMBDA e :
             Bind(SkipWs(s, e.i), LAMBDA j :
               IF ~e.ok THEN e
               ELSE IF j > Len(s) THEN ParseFail(j)
               ELSE IF s[j] = ","
                    THEN ParseMembers(s, j + 1, Append(acc, Member(k.v, e.v)))
               ELSE IF s[j] = "}"
                    THEN ParseOk(JObj(Append(acc, Member(k.v, e.v))), j + 1)
               ELSE ParseFail(j))))

ParseValue(s, i0) ==
    Bind(SkipWs(s, i0), LAMBDA i :
        IF i > Len(s) THEN ParseFail(i)
        ELSE IF s[i] = "{"
             THEN LET j == SkipWs(s, i + 1)
                  IN  IF j <= Len(s) /\ s[j] = "}" THEN ParseOk(JObj(<<>>), j + 1)
                      ELSE ParseMembers(s, i + 1, <<>>)
        ELSE IF s[i] = "["
             THEN LET j == SkipWs(s, i + 1)
                  IN  IF j <= Len(s) /\ s[j] = "]" THEN ParseOk(JArr(<<>>), j + 1)
                      ELSE ParseElements(s, i + 1, <<>>)
        ELSE IF s[i] = Quote THEN ScanString(s, i + 1, <<>>)
        ELSE IF s[i] = "-" \/ IsDigit(s[i]) THEN ParseNumber(s, i)
        ELSE IF s[i] = "n" THEN ParseLiteral(s, i, <<"n", "u", "l", "l">>, JNull)
        ELSE IF s[i] = "t" THEN ParseLiteral(s, i, <<"t", "r", "u", "e">>, JBool(TRUE))
        ELSE IF s[i] = "f"
             THEN ParseLiteral(s, i, <<"f", "a", "l", "s", "e">>, JBool(FALSE))
        ELSE ParseFail(i))

\* json.loads: one value, surrounding whitespace allowed, nothing after it.
\* Returned(value), or Raised("JSONDecodeError", what failed and where).
json_loads(s) ==
    Bind(ParseValue(s, 1), LAMBDA r :
      Bind(SkipWs(s, r.i), LAMBDA j :
        IF ~r.ok THEN Raised("JSONDecodeError", [text |-> "Expecting value", pos |-> r.i])
        ELSE IF j <= Len(s) THEN Raised("JSONDecodeError", [text |-> "Extra data", pos |-> j])
        ELSE Returned(r.v)))

(***************************************************************************)
(* JSONCleaner.validate_json_structure and JSONCleaner.clean_and_validate  *)
(***************************************************************************)
StructureHandlerValueError == "ValueError"

\* The class named by the except clause of validate_json_structure.
StructureHandler == "JSONDecodeError"

validate_json_structure(json_string) ==
    Bind(json_loads(json_string), LAMBDA parsed :
      LET body == IF ~parsed.ok THEN parsed
                  ELSE IF parsed.v.t # "obj"
                  THEN Raised("ValueError",
                              Msg("JSON must be an object, not an array or primitive"))
                  ELSE parsed
      IN  IF ~body.ok /\ IsSubclass(body.exc, StructureHandler)
          THEN Raised("ValueError", [text |-> "Invalid JSON format", e |-> body.msg])
          ELSE body)

clean_and_validate(response_text) ==
    Bind(clean_json_response(response_text), LAMBDA cleaned :
      IF cleaned.ok THEN validate_json_structure(cleaned.v) ELSE cleaned)

(***************************************************************************)
(* model_dump and model_dump_json(indent=...): the Library as a JSON value *)
(* and as JSON text.                                                       *)
(***************************************************************************)
KeyTitle == <<"t", "i", "t", "l", "e">>

KeyAuthor == <<"a", "u", "t", "h", "o", "r">>

KeyYear == <<"y", "e", "a", "r">>

KeyName == <<"n", "a", "m", "e">>

KeyBooks == <<"b", "o", "o", "k", "s">>

BookDump(b) ==
    JObj(<<Member(KeyTitle, JStr(b.title)), Member(KeyAuthor, JStr(b.author)),
           Member(KeyYear, JInt(b.year))>>)

model_dump(l) ==
    JObj(<<Member(KeyName, JStr(l.name)),
           Member(KeyBooks, JArr([i \in 1..Len(l.books) |-> BookDump(l.books[i])]))>>)

RECURSIVE NatText(_)
NatText(n) == IF n < 10 THEN <<Digits[n + 1]>> ELSE Append(NatText(n \div 10), Digits[(n % 10) + 1])

IntText(n) == IF n < 0 THEN <<"-">> \o NatText(0 - n) ELSE NatText(n)

EscapeChar(c) ==
    IF c = Quote THEN <<Backslash, Quote>>
    ELSE IF c = Backslash THEN <<Backslash, Backslash>>
    ELSE IF c = "\n" THEN <<Backslash, "n">>
    ELSE IF c = "\t" THEN <<Backslash, "t">>
    ELSE IF c = "\r" THEN <<Backslash, "r">>
    ELSE <<c>>

StrText(s) == <<Quote>> \o Concat([i \in 1..Len(s) |-> EscapeChar(s[i])]) \o <<Quote>>

Spaces(n) == [i \in 1..n |-> " "]

\* The line break before an item at nesting depth `level`; nothing when compact.
Break(indent, level) == IF indent = 0 THEN <<>> ELSE <<"\n">> \o Spaces(indent * level)

RECURSIVE JoinWith(_, _)
JoinWith(parts, sep) ==
    IF parts = <<>> THEN <<>>
    ELSE IF Len(parts) = 1 THEN parts[1]
    ELSE parts[1] \o sep \o JoinWith(Tail(parts), sep)

\* JSON text of a value: compact when indent = 0, else one item per line,
\* indented by `indent` spaces per level.
RECURSIVE JsonText(_, _, _)
JsonText(v, indent, level) ==
    IF v.t = "null" THEN <<"n", "u", "l", "l">>
    ELSE IF v.t = "bool" THEN (IF v.b THEN <<"t", "r", "u", "e">> ELSE <<"f", "a", "l", "s", "e">>)
    ELSE IF v.t = "int" THEN IntText(v.n)
    ELSE IF v.t = "str" THEN StrText(v.s)
    ELSE IF v.t = "arr"
         THEN IF v.a = <<>> THEN <<"[", "]">>
              ELSE <<"[">> \o Break(indent, level + 1)
                   \o JoinWith([i \in 1..Len(v.a) |-> JsonText(v.a[i], indent, level + 1)],
                               <<",">> \o Break(indent, level + 1))
                   \o Break(indent, level) \o <<"]">>
    ELSE IF v.o = <<>> THEN <<"{", "}">>
         ELSE <<"{">> \o Break(indent, level + 1)
              \o JoinWith([i \in 1..Len(v.o) |->
                              StrText(v.o[i].k)
                              \o (IF indent = 0 THEN <<":">> ELSE <<":", " ">>)
                              \o JsonText(v.o[i].v, indent, level + 1)],
                          <<",">> \o Break(indent, level + 1))
              \o Break(indent, level) \o <<"}">>

model_dump_json(l, indent) == JsonText(model_dump(l), indent, 0)

(***************************************************************************)
(* models/library.py: the Book and Library schema.  A field validator      *)
(* returns [ok, v, errs]: the validated value, or the errors pydantic      *)
(* lists in its ValidationError.                                           *)
(***************************************************************************)
\* datetime.now().year, read once when the Book class is defined.
CurrentYear == 2026

\* Field(min_length=1)
MinLength == 1

\* Field(gt=1000)
YearGt == 1000

FieldOk(v) == [ok |-> TRUE, v |-> v, errs |-> <<>>]

\* An error names its type, the place of the field and the offending input.
FieldErr(type, loc, input) ==
    [ok |-> FALSE, v |-> None,
     errs |-> <<[type |-> type, loc |-> loc, input |-> JsonText(input, 0, 0)]>>]

\* The index of the member that gives key k its value (the last one), or 0.
RECURSIVE Lookup(_, _)
Lookup(o, k) ==
    IF o = <<>> THEN 0
    ELSE IF o[Len(o)].k = k THEN Len(o)
    ELSE Lookup(SubSeq(o, 1, Len(o) - 1), k)

\* Config.str_strip_whitespace = True
NoStripWhitespace(s) == s

StripWhitespace(s) == Strip(s)

MinLengthOk(s) == Len(s) >= MinLength

\* A str field with min_length: the value must be a string; it is stripped,
\* then its length is checked.
StrValue(v, loc) ==
    IF v.t # "str" THEN FieldErr("string_type", loc, v)
    ELSE LET s == StripWhitespace(v.s)
         IN  IF MinLengthOk(s) THEN FieldOk(s) ELSE FieldErr("string_too_short", loc, v)

\* The text of an integer, read the way the lax int validator reads a string.
StrAsInt(s) ==
    LET t == Strip(s)
        neg == t # <<>> /\ t[1] = "-"
        d == IF neg THEN Tail(t) ELSE t
    IN  IF d = <<>> \/ \E i \in 1..Len(d) : ~IsDigit(d[i]) THEN [ok |-> FALSE, n |-> 0]
        ELSE [ok |-> TRUE, n |-> IF neg THEN 0 - ScanDigits(d, 1, 0).n
                                  ELSE ScanDigits(d, 1, 0).n]

\* gt=1000
YearLowerOk(n) == n > YearGt

YearUpperOkNone(n) == TRUE

\* le=datetime.now().year
YearUpperOk(n) == n <= CurrentYear

\* The year field: an integer (in lax mode also a bool or a string of
\* digits), greater than 1000 and at most the current year.
YearValue(v, loc) ==
    LET n == IF v.t = "int" THEN [ok |-> TRUE, n |-> v.n]
             ELSE IF v.t = "bool" THEN [ok |-> TRUE, n |-> IF v.b THEN 1 ELSE 0]
             ELSE IF v.t = "str" THEN StrAsInt(v.s)
             ELSE [ok |-> FALSE, n |-> 0]
    IN  IF ~n.ok THEN FieldErr(IF v.t = "str" THEN "int_parsing" ELSE "int_type", loc, v)
        ELSE IF ~YearLowerOk(n.n) THEN FieldErr("greater_than", loc, v)
        ELSE IF ~YearUpperOk(n.n) THEN FieldErr("less_than_equal", loc, v)
        ELSE FieldOk(n.n)

\* A required field of the object o, validated by StrValue or YearValue.
StrField(o, k, loc) ==
    IF Lookup(o, k) = 0 THEN FieldErr("missing", loc, JObj(o)) ELSE StrValue(o[Lookup(o, k)].v, loc)

YearField(o, k, loc) ==
    IF Lookup(o, k) = 0 THEN FieldErr("missing", loc, JObj(o)) ELSE YearValue(o[Lookup(o, k)].v, loc)

\* Book: every field is validated and every error is collected; the Book
\* exists only when there is none.  loc is the place of the book in the
\* enclosing list (0 for a Book built on its own).
ValidateBook(v, loc) ==
    IF v.t # "obj" THEN FieldErr("model_type", <<loc>>, v)
    ELSE Bind(<<StrField(v.o, KeyTitle, <<loc, "title">>),
                StrField(v.o, KeyAuthor, <<loc, "author">>),
                YearField(v.o, KeyYear, <<loc, "year">>)>>, LAMBDA f :
           IF f[1].ok /\ f[2].ok /\ f[3].ok
           THEN FieldOk([title |-> f[1].v, author |-> f[2].v, year |-> f[3].v])
           ELSE [ok |-> FALSE, v |-> None, errs |-> f[1].errs \o f[2].errs \o f[3].errs])

RECURSIVE ValidItemsOnly(_, _)
ValidItemsOnly(a, i) ==
    IF i > Len(a) THEN FieldOk(<<>>)
    ELSE Bind(ValidateBook(a[i], i - 1), LAMBDA b :
           Bind(ValidItemsOnly(a, i + 1), LAMBDA rest :
             IF b.ok THEN FieldOk(<<b.v>> \o rest.v) ELSE rest))

\* List[Book]: the items in order; one invalid item fails the whole list.
RECURSIVE ValidateItems(_, _)
ValidateItems(a, i) ==
    IF i > Len(a) THEN FieldOk(<<>>)
    ELSE Bind(ValidateBook(a[i], i - 1), LAMBDA b :
           Bind(ValidateItems(a, i + 1), LAMBDA rest :
             IF b.ok /\ rest.ok THEN FieldOk(<<b.v>> \o rest.v)
             ELSE [ok |-> FALSE, v |-> None, errs |-> b.errs \o rest.errs]))

BooksValue(v) ==
    IF v.t # "arr" THEN FieldErr("list_type", <<"books">>, v) ELSE ValidateItems(v.a, 1)

BooksField(o) ==
    IF Lookup(o, KeyBooks) = 0 THEN FieldErr("missing", <<"books">>, JObj(o))
    ELSE BooksValue(o[Lookup(o, KeyBooks)].v)

ValidateLibrary(v) ==
    IF v.t # "obj" THEN FieldErr("model_type", <<>>, v)
    ELSE Bind(<<StrField(v.o, KeyName, <<"name">>), BooksField(v.o)>>, LAMBDA f :
           IF f[1].ok /\ f[2].ok THEN FieldOk([name |-> f[1].v, books |-> f[2].v])
           ELSE [ok |-> FALSE, v |-> None, errs |-> f[1].errs \o f[2].errs])

ValidationError(errs) == Raised("ValidationError", [text |-> "validation errors", errs |-> errs])

\* Library.model_validate_json: read the JSON text, then validate the value.
\* The error for a text that is no JSON shows the text it was given.
model_validate_json(json_data) ==
    Bind(ParseValue(json_data, 1), LAMBDA r :
      IF ~r.ok \/ SkipWs(json_data, r.i) <= Len(json_data)
      THEN ValidationError(<<[type |-> "json_invalid", loc |-> <<>>, input |-> json_data]>>)
      ELSE Bind(ValidateLibrary(r.v), LAMBDA l :
             IF l.ok THEN Returned(l.v) ELSE ValidationError(l.errs)))

\* Book(title=..., author=..., year=...)
BookNew(title, author, year) ==
    Bind(ValidateBook(JObj(<<Member(KeyTitle, title), Member(KeyAuthor, author),
                             Member(KeyYear, year)>>), 0), LAMBDA b :
      IF b.ok THEN Returned(b.v) ELSE ValidationError(b.errs))

(***************************************************************************)
(* services/gemini_client.py.  The reply of the generation service is an   *)
(* input of the model: the request raises, or it answers with a text       *)
(* (possibly empty).                                                       *)
(***************************************************************************)
\* A printed line: its fixed text and, in other fields, what it interpolates.
Line(text) == [text |-> text]

\* A function's effect: what it returns or raises, what it prints, how many
\* generation requests it issued.
Effect(r, printed, n) == [ret |-> r, out |-> printed, calls |-> n]

\* The class named by the except clause of generate_library_data.
ClientHandler == "Exception"

generate_library_data(api) ==
    LET body == IF api.kind = "error" THEN Raised("RuntimeError", Msg("request failed"))
                ELSE IF api.text # <<>> THEN Returned(Strip(api.text))
                ELSE ReturnedNone
    IN  IF ~body.ok
        THEN IF IsSubclass(body.exc, ClientHandler)
             THEN Effect(ReturnedNone, <<[text |-> "Error generating content", e |-> body]>>, 1)
             ELSE Effect(body, <<>>, 1)
        ELSE IF body.none
        THEN Effect(ReturnedNone, <<Line("No response received from Gemini")>>, 1)
        ELSE Effect(body, <<>>, 1)

(***************************************************************************)
(* services/data_processor.py                                              *)
(***************************************************************************)
\* The class named by the except clauses of DataProcessor.
ProcessorHandler == "Exception"

\* Steps 2 and 3 of both workflows: the cleaner, then the schema.
CleanThenValidate(text) ==
    Bind(clean_json_response(text), LAMBDA cleaned :
      IF cleaned.ok THEN model_validate_json(cleaned.v) ELSE cleaned)

CleanedLine(text) ==
    IF clean_json_response(text).ok THEN <<Line("JSON cleaned successfully")>> ELSE <<>>

\* print(f"Raw response: {raw_response}")
RawResponseLine(raw) == <<[text |-> "Raw response", str |-> raw]>>

\* What follows once the client has returned a non-empty raw response.
ProcessRaw(raw, start, n) ==
    Bind(CleanThenValidate(raw), LAMBDA r :
                 IF r.ok
                 THEN Effect(r, start \o CleanedLine(raw)
                                 \o <<Line("Data validated and parsed successfully!")>>,
                             n)
                 ELSE IF IsSubclass(r.exc, ProcessorHandler)
                 THEN Effect(ReturnedNone,
                             start \o CleanedLine(raw)
                                 \o <<[text |-> "Error processing data", e |-> r]>>
                                 \o RawResponseLine(raw),
                             n)
                 ELSE Effect(r, start \o CleanedLine(raw), n))

generate_and_parse_library(api) ==
    Bind(generate_library_data(api), LAMBDA gen :
      LET start == <<Line("Generating library data")>> \o gen.out
      IN  IF ~gen.ret.ok THEN Effect(gen.ret, start, gen.calls)
          ELSE IF gen.ret.none \/ gen.ret.v = <<>>
          THEN Effect(ReturnedNone,
                      start \o <<Line("Failed to generate data from Gemini")>>, gen.calls)
          ELSE ProcessRaw(gen.ret.v, start, gen.calls))

parse_json_to_library(json_string) ==
    Bind(CleanThenValidate(json_string), LAMBDA r :
        IF r.ok
        THEN Effect(r, <<Line("Successfully parsed JSON to Library object")>>, 0)
        ELSE IF IsSubclass(r.exc, ProcessorHandler)
        THEN Effect(ReturnedNone, <<[text |-> "Error parsing JSON", e |-> r]>>, 0)
        ELSE Effect(r, <<>>, 0))

library_to_dict(library) == model_dump(library)

IndentDefault == 4

library_to_json(library) == model_dump_json(library, IndentDefault)

(***************************************************************************)
(* utils/file_manager.py.  The output directory is the function `files`;   *)
(* io tells whether open() and write() succeed.                            *)
(***************************************************************************)
NoFile == <<"<no file>">>

FileNames == {"library_data.json"}

\* The class named by the except clauses of FileManager.
FileHandlerOSError == "OSError"

FileHandler == "Exception"

\* The directory after open(filepath, 'w') and f.write(json_content): open
\* truncates the file, write puts the whole content.
WrittenAppend(dir, filename, content, io) ==
    IF io = "open fails" THEN dir
    ELSE IF io = "write fails" THEN dir
    ELSE [dir EXCEPT ![filename] = (IF @ = NoFile THEN <<>> ELSE @) \o content]

\* (a write that starts at the beginning of the file and does not truncate it)
WrittenInPlace(dir, filename, content, io) ==
    IF io = "open fails" THEN dir
    ELSE IF io = "write fails" THEN dir
    ELSE [dir EXCEPT ![filename] =
            IF @ # NoFile /\ Len(@) > Len(content)
            THEN content \o SubSeq(@, Len(content) + 1, Len(@))
            ELSE content]

Written(dir, filename, content, io) ==
    IF io = "open fails" THEN dir
    ELSE IF io = "write fails" THEN [dir EXCEPT ![filename] = <<>>]
    ELSE [dir EXCEPT ![filename] = content]

\* [ret, out, files]
save_library_json(dir, library, filename, io) ==
    LET json_content == model_dump_json(library, 4)
        body == IF io = "ok" THEN Returned(TRUE) ELSE Raised("OSError", Msg(io))
        after == Written(dir, filename, json_content, io)
    IN  IF body.ok
        THEN [ret |-> body, files |-> after,
              out |-> <<[text |-> "Library data saved", path |-> filename]>>]
        ELSE IF IsSubclass(body.exc, FileHandler)
        THEN [ret |-> Returned(FALSE), files |-> after,
              out |-> <<[text |-> "Error saving JSON file", e |-> body]>>]
        ELSE [ret |-> body, files |-> after, out |-> <<>>]

load_library_json(dir, filename, io) ==
    IF dir[filename] = NoFile
    THEN Effect(ReturnedNone, <<[text |-> "File not found", path |-> filename]>>, 0)
    ELSE Bind(IF io # "ok" THEN Raised("OSError", Msg(io))
              ELSE model_validate_json(dir[filename]), LAMBDA body :
             IF body.ok
             THEN Effect(body, <<[text |-> "Library data loaded", path |-> filename]>>, 0)
             ELSE IF IsSubclass(body.exc, FileHandler)
             THEN Effect(ReturnedNone, <<[text |-> "Error loading JSON file", e |-> body]>>, 0)
             ELSE Effect(body, <<>>, 0))

(***************************************************************************)
(* The caller.  A call is made when no result is pending (op = "init"),    *)
(* and its result stays in ret until the caller drops it.                  *)
(***************************************************************************)
InitIdle ==
    /\ op = "init"
    /\ arg = <<>>
    /\ ret = ReturnedNone
    /\ out = <<>>
    /\ book = None
    /\ lib = None
    /\ files = [f \in FileNames |-> NoFile]
    /\ calls = 0

\* The caller drops the result of the last call and is ready for the next.
Discard ==
    /\ op # "init"
    /\ op' = "init"
    /\ arg' = <<>>
    /\ ret' = ReturnedNone
    /\ out' = <<>>
    /\ calls' = 0
    /\ UNCHANGED <<book, lib, files>>

(***************************************************************************)
(* The cleaner on its own: every call is made on a text whose body is put  *)
(* together from at most MaxPieces pieces (fence markers, whitespace, JSON *)
(* fragments), with or without markers and whitespace around it.           *)
(***************************************************************************)
Pieces ==
    { Fence, <<Tick>>, <<"\n">>,
      <<"{", Quote, "a", Quote, ":", "1", "}">>, <<"[", "]">>, <<"1">> }

Bodies == { Concat(ps) : ps \in UNION { [1..k -> Pieces] : k \in 0..MaxPieces } }

\* leading whitespace, leading marker, body, trailing marker, trailing whitespace
Texts ==
    { Concat(<<a, b, m, c, d>>) :
        a \in {<<>>, <<" ">>}, b \in {<<>>, Fence, FenceJson}, m \in Bodies,
        c \in {<<>>, Fence}, d \in {<<>>, <<"\n">>} }

CallClean(t) ==
    /\ op = "init"
    /\ op' = "clean_json_response"
    /\ arg' = t
    /\ ret' = clean_json_response(t)
    /\ UNCHANGED <<out, book, lib, files, calls>>

\* The caller runs the cleaner a second time, on what the first run returned.
CallCleanAgain ==
    /\ op = "clean_json_response"
    /\ ret.ok
    /\ op' = "clean_json_response again"
    /\ arg' = ret.v
    /\ ret' = clean_json_response(ret.v)
    /\ UNCHANGED <<out, book, lib, files, calls>>

CallValidateStructure(t) ==
    /\ op = "init"
    /\ op' = "validate_json_structure"
    /\ arg' = t
    /\ ret' = validate_json_structure(t)
    /\ UNCHANGED <<out, book, lib, files, calls>>

CallCleanAndValidate(t) ==
    /\ op = "init"
    /\ op' = "clean_and_validate"
    /\ arg' = t
    /\ ret' = clean_and_validate(t)
    /\ UNCHANGED <<out, book, lib, files, calls>>

NextCleaner ==
    \/ \E t \in Texts : CallClean(t)
    \/ CallCleanAgain
    \/ \E t \in Texts : CallValidateStructure(t)
    \/ \E t \in Texts : CallCleanAndValidate(t)
    \/ Discard

SpecCleaner == InitIdle /\ [][NextCleaner]_vars

(***************************************************************************)
(* Claims about the cleaner, checked under SpecCleaner.                    *)
(***************************************************************************)
CleanOps == {"clean_json_response", "clean_json_response again"}

RaisedWith(r, cls, text) == ~r.ok /\ r.exc = cls /\ r.msg.text = text

\* C1: clean_json_response fails with the empty-input ValueError for every
\* input that is empty or all whitespace, and clean_and_validate on such an
\* input fails with that error too, before the JSON parser is reached.
C1_BlankInputRaisesEmpty ==
    (op \in CleanOps \cup {"clean_and_validate"} /\ Strip(arg) = <<>>)
        => RaisedWith(ret, "ValueError", "Response text is empty")

\* The text between a leading marker of length n and a trailing one of length m.
Between(t, n, m) == SubSeq(t, n + 1, Len(t) - m)

\* C2: for every non-empty input the result is the trimmed text with one
\* leading marker taken off (the tagged marker when the trimmed text starts
\* with it, otherwise the bare marker when it starts with that), then one
\* trailing marker taken off what is left when that ends with one, then
\* trimmed again; a text with no marker at either end comes back trimmed and
\* otherwise unchanged.
C2_OneFenceEachSide ==
    (op \in CleanOps /\ arg # <<>>) =>
        LET t == Strip(arg)
        IN  /\ ret.ok
            /\ \E lead \in {FenceJson, Fence, <<>>}, trail \in {Fence, <<>>} :
                 /\ Len(lead) + Len(trail) <= Len(t)
                 /\ t = lead \o Between(t, Len(lead), Len(trail)) \o trail
                 /\ (lead = FenceJson) <=> StartsWith(t, FenceJson)
                 /\ (lead = <<>>) <=> ~StartsWith(t, Fence)
                 /\ (trail = Fence) <=> EndsWith(Between(t, Len(lead), 0), Fence)
                 /\ ret.v = Strip(Between(t, Len(lead), Len(trail)))
            /\ (~StartsWith(t, Fence) /\ ~EndsWith(t, Fence)) => ret.v = t

C2_Witness ==
    /\ op = "clean_json_response"
    /\ StartsWith(Strip(arg), FenceJson)
    /\ EndsWith(Strip(arg), Fence)
    /\ Strip(arg) # arg
    /\ ret.ok
    /\ validate_json_structure(ret.v).ok

\* A JSON text with nothing around it: it parses, and it carries no
\* surrounding whitespace (so no fence marker either).
IsCleanJson(t) == t # <<>> /\ Strip(t) = t /\ json_loads(t).ok

\* C3: on a clean JSON text the cleaner returns the text itself, on the
\* first run and on a second run over the result of the first.
C3_IdempotentOnCleanJson ==
    (op \in CleanOps /\ IsCleanJson(arg)) => (ret.ok /\ ret.v = arg)

C3_Witness ==
    /\ op = "clean_json_response again"
    /\ IsCleanJson(arg)
    /\ json_loads(arg).v.t = "obj"
    /\ ret.ok /\ ret.v = arg

\* C7: validate_json_structure (and clean_and_validate, on what the cleaner
\* returns) ends in one of three ways: malformed text raises the
\* "Invalid JSON format" ValueError carrying the parser's diagnostic; a text
\* that parses to an array or scalar raises the "JSON must be an object"
\* ValueError, unchanged by the function's own handler; a text that parses
\* to an object returns that object.
ParsedText ==
    IF op = "clean_and_validate" THEN clean_json_response(arg).v ELSE arg

C7_ThreeOutcomes ==
    (\/ op = "validate_json_structure"
     \/ op = "clean_and_validate" /\ arg # <<>>) =>
        LET p == json_loads(ParsedText)
        IN  /\ ~p.ok => /\ RaisedWith(ret, "ValueError", "Invalid JSON format")
                        /\ ret.msg.e = p.msg
            /\ (p.ok /\ p.v.t # "obj") =>
                   RaisedWith(ret, "ValueError",
                              "JSON must be an object, not an array or primitive")
            /\ (p.ok /\ p.v.t = "obj") => (ret.ok /\ ret.v = p.v)

C7_Witness ==
    /\ op = "validate_json_structure"
    /\ json_loads(arg).ok
    /\ json_loads(arg).v.t = "arr"
    /\ RaisedWith(ret, "ValueError", "JSON must be an object, not an array or primitive")

(***************************************************************************)
(* The Book class on its own: a Book is built from Python values, and its  *)
(* attributes are assigned to (Config.validate_assignment = True).         *)
(***************************************************************************)
StrArgs == { <<>>, <<" ">>, <<"A">>, <<" ", "A">>, <<"C", " ">>, <<Quote, "C">> }

YearArgs == { 999, 1000, 1001, 1955, CurrentYear, CurrentYear + 1 }

CallBook(title, author, year) ==
    /\ op = "init"
    /\ book = None
    /\ op' = "Book"
    /\ arg' = [title |-> title, author |-> author, year |-> year]
    /\ ret' = BookNew(JStr(title), JStr(author), JInt(year))
    /\ book' = IF ret'.ok THEN ret'.v ELSE book
    /\ UNCHANGED <<out, lib, files, calls>>

\* book.<field> = value: the value is validated as the field is; the
\* attribute is set only when it is valid, else ValidationError is raised.
SetAttrUnvalidated(obj, field, value, r) == [obj EXCEPT ![field] = value]

SetAttr(obj, field, value, r) ==
    IF r.ok THEN [obj EXCEPT ![field] = r.v] ELSE obj

AssignResult(r) == IF r.ok THEN ReturnedNone ELSE ValidationError(r.errs)

AssignTitle(v) ==
    /\ op = "init"
    /\ book # None
    /\ op' = "book.title ="
    /\ arg' = v
    /\ ret' = AssignResult(StrValue(JStr(v), <<"title">>))
    /\ book' = SetAttr(book, "title", v, StrValue(JStr(v), <<"title">>))
    /\ UNCHANGED <<out, lib, files, calls>>

AssignAuthor(v) ==
    /\ op = "init"
    /\ book # None
    /\ op' = "book.author ="
    /\ arg' = v
    /\ ret' = AssignResult(StrValue(JStr(v), <<"author">>))
    /\ book' = SetAttr(book, "author", v, StrValue(JStr(v), <<"author">>))
    /\ UNCHANGED <<out, lib, files, calls>>

AssignYear(y) ==
    /\ op = "init"
    /\ book # None
    /\ op' = "book.year ="
    /\ arg' = y
    /\ ret' = AssignResult(YearValue(JInt(y), <<"year">>))
    /\ book' = SetAttr(book, "year", y, YearValue(JInt(y), <<"year">>))
    /\ UNCHANGED <<out, lib, files, calls>>

\* Reading the Book: __str__ and the attribute reads of the analysis code.
ReadBook ==
    /\ op = "init"
    /\ book # None
    /\ op' = "str(book)"
    /\ arg' = <<>>
    /\ ret' = Returned(<<book.title, book.author, book.year>>)
    /\ UNCHANGED <<out, book, lib, files, calls>>

NextBook ==
    \/ \E t \in StrArgs, a \in StrArgs, y \in YearArgs : CallBook(t, a, y)
    \/ \E v \in StrArgs : AssignTitle(v)
    \/ \E v \in StrArgs : AssignAuthor(v)
    \/ \E y \in YearArgs : AssignYear(y)
    \/ ReadBook
    \/ Discard

SpecBook == InitIdle /\ [][NextBook]_vars

(***************************************************************************)
(* Claims about Book, checked under SpecBook.                              *)
(***************************************************************************)
NonEmpty(s) == Strip(s) # <<>>

\* C4: a Book with non-empty title and author is built for every year from
\* 1000 to the current year, both included, and for no other year.
C4_YearRangeInclusive ==
    (op = "Book" /\ NonEmpty(arg.title) /\ NonEmpty(arg.author)) =>
        (ret.ok <=> (1000 <= arg.year /\ arg.year <= CurrentYear))

AssignOps == {"book.title =", "book.author =", "book.year ="}

\* C9 as stated: once a Book exists, no step changes any of its fields.
C9_BookNeverChanges == [][book # None => book' = book]_vars

\* C9, amended: once a Book exists it stays one, and a step changes it only
\* by assigning a valid value to one attribute: that attribute takes the
\* validated (stripped) value, the other two keep theirs; a rejected
\* assignment and every other step leave all three fields as they were.
OnlyFieldChanged(f) ==
    \A g \in {"title", "author", "year"} \ {f} : book'[g] = book[g]

C9_ChangedOnlyByValidAssignment ==
    [][book # None =>
          /\ book' # None
          /\ (book' # book) =>
                /\ op' \in AssignOps
                /\ ret'.ok
                /\ \/ /\ op' = "book.title ="
                      /\ book'.title = Strip(arg') /\ NonEmpty(arg')
                      /\ OnlyFieldChanged("title")
                   \/ /\ op' = "book.author ="
                      /\ book'.author = Strip(arg') /\ NonEmpty(arg')
                      /\ OnlyFieldChanged("author")
                   \/ /\ op' = "book.year ="
                      /\ book'.year = arg' /\ arg' > 1000 /\ arg' <= CurrentYear
                      /\ OnlyFieldChanged("year")
          /\ (op' \in AssignOps /\ ~ret'.ok) => book' = book]_vars

C9_Witness ==
    /\ op = "book.title ="
    /\ ret.ok
    /\ book.title = <<"C">>
    /\ arg = <<"C", " ">>

(***************************************************************************)
(* The pipeline.  A reply of the service, or a text handed to              *)
(* parse_json_to_library, is the JSON text of a document (a library with   *)
(* at most MaxBooks books, valid or with one defective field, or a value   *)
(* that is no object), bare or inside a fenced block, or a text that is no *)
(* JSON at all.  arg records the document with the text made from it.      *)
(***************************************************************************)
RawBook(title, author, year) ==
    JObj(<<Member(KeyTitle, JStr(title)), Member(KeyAuthor, JStr(author)),
           Member(KeyYear, JInt(year))>>)

GoodBooks ==
    { RawBook(<<"A">>, <<"B">>, 1001),
      RawBook(<<" ", Quote, "C">>, <<"B">>, CurrentYear) }

BadBooks ==
    { RawBook(<<>>, <<"B">>, 1955),
      RawBook(<<"A">>, <<>>, 1955),
      RawBook(<<"A">>, <<"B">>, 999),
      RawBook(<<"A">>, <<"B">>, 1000),
      RawBook(<<"A">>, <<"B">>, CurrentYear + 1),
      JObj(<<Member(KeyTitle, JStr(<<"A">>)), Member(KeyAuthor, JStr(<<"B">>))>>) }

BookLists == UNION { [1..k -> GoodBooks \cup BadBooks] : k \in 0..MaxBooks }

RawLibrary(name, books) == JObj(<<Member(KeyName, JStr(name)), Member(KeyBooks, JArr(books))>>)

OneGoodBook == <<RawBook(<<"A">>, <<"B">>, 1001)>>

LibraryDocs ==
    { RawLibrary(n, bs) : n \in {<<"L">>, <<" ", "L">>, <<>>}, bs \in BookLists }
        \cup { JObj(<<Member(KeyBooks, JArr(OneGoodBook))>>),
               JObj(<<Member(KeyName, JStr(<<"L">>))>>) }

OtherDocs ==
    { JArr(<<>>), JArr(<<RawLibrary(<<"L">>, OneGoodBook)>>), JInt(1), JStr(<<"L">>), JNull }

Wrap(w, d) ==
    IF w = "bare" THEN JsonText(d, 4, 0)
    ELSE IF w = "json fence"
    THEN FenceJson \o <<"\n">> \o JsonText(d, 0, 0) \o <<"\n">> \o Fence
    ELSE <<" ">> \o Fence \o JsonText(d, 2, 0) \o Fence \o <<"\n">>

Wraps == {"bare", "json fence", "fence"}

NotJson ==
    { <<" ">>, <<"\n", " ">>, <<"{">>, <<"{", "}", "x">>, Fence,
      SliceToLast(JsonText(RawLibrary(<<"L">>, OneGoodBook), 0, 0), 1) }

Inputs ==
    { [kind |-> "json", wrap |-> w, doc |-> d, text |-> Wrap(w, d)] :
        w \in Wraps, d \in LibraryDocs \cup OtherDocs }
      \cup { [kind |-> "not json", wrap |-> "bare", doc |-> JNull, text |-> t] : t \in NotJson }

ApiReplies ==
    { [kind |-> "text", text |-> i.text, input |-> i] : i \in Inputs }
      \cup { [kind |-> "text", text |-> <<>>,
              input |-> [kind |-> "not json", wrap |-> "bare", doc |-> JNull, text |-> <<>>]],
             [kind |-> "error", text |-> <<>>,
              input |-> [kind |-> "not json", wrap |-> "bare", doc |-> JNull, text |-> <<>>]] }

CallParseJsonToLibrary(i) ==
    /\ op = "init"
    /\ lib = None
    /\ op' = "parse_json_to_library"
    /\ arg' = i
    /\ \E e \in {parse_json_to_library(i.text)} :
          ret' = e.ret /\ out' = e.out /\ calls' = e.calls
    /\ UNCHANGED <<book, lib, files>>

\* The client on its own: arg is what the service replied.
CallGenerateLibraryData(api) ==
    /\ op = "init"
    /\ lib = None
    /\ op' = "generate_library_data"
    /\ arg' = [api.input EXCEPT !.kind = IF api.kind = "error" THEN "api error" ELSE @]
    /\ \E e \in {generate_library_data(api)} :
          ret' = e.ret /\ out' = e.out /\ calls' = e.calls
    /\ UNCHANGED <<book, lib, files>>

\* arg is what the service replied; the raw response the workflow works on
\* is that text, stripped by the client.
CallGenerateAndParseLibrary(api) ==
    /\ op = "init"
    /\ lib = None
    /\ op' = "generate_and_parse_library"
    /\ arg' = [api.input EXCEPT !.kind = IF api.kind = "error" THEN "api error" ELSE @]
    /\ \E e \in {generate_and_parse_library(api)} :
          ret' = e.ret /\ out' = e.out /\ calls' = e.calls
    /\ UNCHANGED <<book, lib, files>>

\* library = processor.parse_json_to_library(...): the caller holds on to
\* the Library a workflow returned.
Keep ==
    /\ op \in {"parse_json_to_library", "generate_and_parse_library"}
    /\ ret.ok /\ ~ret.none
    /\ lib = None
    /\ lib' = ret.v
    /\ UNCHANGED <<op, arg, ret, out, book, files, calls>>

CallLibraryToJson ==
    /\ op = "init"
    /\ lib # None
    /\ op' = "library_to_json"
    /\ arg' = <<>>
    /\ ret' = Returned(library_to_json(lib))
    /\ out' = <<>>
    /\ UNCHANGED <<book, lib, files, calls>>

\* The caller parses the text library_to_json just returned.
CallParseDumped ==
    /\ op = "library_to_json"
    /\ op' = "parse_json_to_library of library_to_json"
    /\ arg' = ret.v
    /\ \E e \in {parse_json_to_library(ret.v)} : ret' = e.ret /\ out' = e.out
    /\ UNCHANGED <<book, lib, files, calls>>

CallSaveLibraryJson(f, io) ==
    /\ op = "init"
    /\ lib # None
    /\ op' = "save_library_json"
    /\ arg' = f
    /\ \E e \in {save_library_json(files, lib, f, io)} :
          ret' = e.ret /\ out' = e.out /\ files' = e.files
    /\ UNCHANGED <<book, lib, calls>>

\* The caller loads the file it has just saved.
CallLoadSaved(io) ==
    /\ op = "save_library_json"
    /\ ret.ok /\ ret.v
    /\ op' = "load_library_json of save_library_json"
    /\ \E e \in {load_library_json(files, arg, io)} : ret' = e.ret /\ out' = e.out
    /\ UNCHANGED <<arg, book, lib, files, calls>>

CallLoadLibraryJson(f, io) ==
    /\ op = "init"
    /\ op' = "load_library_json"
    /\ arg' = f
    /\ \E e \in {load_library_json(files, f, io)} : ret' = e.ret /\ out' = e.out
    /\ UNCHANGED <<book, lib, files, calls>>

IoOutcomes == {"ok", "open fails", "write fails"}

NextPipeline ==
    \/ \E i \in Inputs : CallParseJsonToLibrary(i)
    \/ \E api \in ApiReplies : CallGenerateAndParseLibrary(api)
    \/ \E api \in ApiReplies : CallGenerateLibraryData(api)
    \/ Keep
    \/ CallLibraryToJson
    \/ CallParseDumped
    \/ \E f \in FileNames, io \in IoOutcomes : CallSaveLibraryJson(f, io)
    \/ \E io \in {"ok", "open fails"} : CallLoadSaved(io)
    \/ \E f \in FileNames, io \in {"ok", "open fails"} : CallLoadLibraryJson(f, io)
    \/ Discard

SpecPipeline == InitIdle /\ [][NextPipeline]_vars

(***************************************************************************)
(* Claims about the pipeline, checked under SpecPipeline.  They are stated *)
(* over the document the text was made from (arg.doc).                     *)
(***************************************************************************)
ParseOps == {"parse_json_to_library", "generate_and_parse_library"}

\* The entries of the document's books list (none when there is no list).
DocBooks(d) ==
    IF d.t = "obj" /\ Lookup(d.o, KeyBooks) # 0 /\ d.o[Lookup(d.o, KeyBooks)].v.t = "arr"
    THEN d.o[Lookup(d.o, KeyBooks)].v.a
    ELSE <<>>

HasKey(b, k) == b.t = "obj" /\ Lookup(b.o, k) # 0

ValueOf(b, k) == b.o[Lookup(b.o, k)].v

EmptyString(b, k) == HasKey(b, k) /\ ValueOf(b, k).t = "str" /\ Strip(ValueOf(b, k).s) = <<>>

HasYear(b, y) == HasKey(b, KeyYear) /\ ValueOf(b, KeyYear).t = "int" /\ ValueOf(b, KeyYear).n = y

SomeBook(d, P(_)) == \E i \in 1..Len(DocBooks(d)) : P(DocBooks(d)[i])

EmptyTitle(b) == EmptyString(b, KeyTitle)

EmptyAuthor(b) == EmptyString(b, KeyAuthor)

Year999(b) == HasYear(b, 999)

YearNextYear(b) == HasYear(b, CurrentYear + 1)

\* C5: parse_json_to_library returns None for a document with a book whose
\* title is empty, whose author is empty, whose year is 999 or whose year is
\* the current year plus one, and for a document that is no object.
C5_SchemaRejects ==
    (/\ op = "parse_json_to_library"
     /\ arg.kind = "json"
     /\ \/ arg.doc.t # "obj"
        \/ SomeBook(arg.doc, EmptyTitle)
        \/ SomeBook(arg.doc, EmptyAuthor)
        \/ SomeBook(arg.doc, Year999)
        \/ SomeBook(arg.doc, YearNextYear))
        => (ret.ok /\ ret.none)

C5_Witness ==
    /\ op = "parse_json_to_library"
    /\ arg.kind = "json"
    /\ arg.wrap = "json fence"
    /\ Len(DocBooks(arg.doc)) = 2
    /\ YearNextYear(DocBooks(arg.doc)[2])
    /\ ~SomeBook(arg.doc, EmptyTitle) /\ ~SomeBook(arg.doc, EmptyAuthor)
    /\ ~SomeBook(arg.doc, Year999)
    /\ HasYear(DocBooks(arg.doc)[1], CurrentYear)
    /\ ret.none

\* An entry the schema of the specification rejects: a field is missing, a
\* string is empty, or the year lies outside 1000 .. current year.
MissingField(b) == ~HasKey(b, KeyTitle) \/ ~HasKey(b, KeyAuthor) \/ ~HasKey(b, KeyYear)

YearOutOfRange(b) ==
    /\ HasKey(b, KeyYear)
    /\ ValueOf(b, KeyYear).t = "int"
    /\ (ValueOf(b, KeyYear).n < 1000 \/ ValueOf(b, KeyYear).n > CurrentYear)

InvalidEntry(b) == MissingField(b) \/ EmptyTitle(b) \/ EmptyAuthor(b) \/ YearOutOfRange(b)

NameMissingOrEmpty(d) == d.t = "obj" /\ (~HasKey(d, KeyName) \/ EmptyString(d, KeyName))

\* The Book made of entry b: its strings stripped, its year as given.
SameBook(book1, b) ==
    /\ book1.title = Strip(ValueOf(b, KeyTitle).s)
    /\ book1.author = Strip(ValueOf(b, KeyAuthor).s)
    /\ book1.year = ValueOf(b, KeyYear).n

\* C6: when one entry of the books list is invalid, or the name is missing
\* or empty, both workflows return None; and a Library that is returned has
\* a non-empty name and one Book for every entry of the list, in order, each
\* with non-empty title and author and a year within 1000 .. current year
\* (never the valid entries alone).
C6_AllOrNothing ==
    (op \in ParseOps /\ arg.kind = "json") =>
        /\ (SomeBook(arg.doc, InvalidEntry) \/ NameMissingOrEmpty(arg.doc))
              => (ret.ok /\ ret.none)
        /\ (ret.ok /\ ~ret.none) =>
              /\ ret.v.name # <<>>
              /\ Len(ret.v.books) = Len(DocBooks(arg.doc))
              /\ \A i \in 1..Len(ret.v.books) :
                    /\ SameBook(ret.v.books[i], DocBooks(arg.doc)[i])
                    /\ ret.v.books[i].title # <<>>
                    /\ ret.v.books[i].author # <<>>
                    /\ ret.v.books[i].year >= 1000
                    /\ ret.v.books[i].year <= CurrentYear

C6_Witness ==
    /\ op = "generate_and_parse_library"
    /\ arg.kind = "json"
    /\ ~NameMissingOrEmpty(arg.doc)
    /\ Len(DocBooks(arg.doc)) = 2
    /\ ~InvalidEntry(DocBooks(arg.doc)[1])
    /\ MissingField(DocBooks(arg.doc)[2])
    /\ ret.none

\* The read of the file failed (open raised), as the printed error shows.
ReadFailed == \E i \in 1..Len(out) : "e" \in DOMAIN out[i] /\ out[i].e.exc = "OSError"

RoundTripOps ==
    {"parse_json_to_library of library_to_json", "load_library_json of save_library_json"}

\* C8: the Library read back from the JSON text of a Library (the text
\* library_to_json returns, parsed by parse_json_to_library; the file
\* save_library_json wrote, loaded by load_library_json when the file can be
\* read) has the same name and the same books in the same order, with the
\* same title, author and year.
C8_RoundTrip ==
    (op \in RoundTripOps /\ ~ReadFailed) =>
        /\ ret.ok /\ ~ret.none
        /\ ret.v.name = lib.name
        /\ Len(ret.v.books) = Len(lib.books)
        /\ \A i \in 1..Len(lib.books) :
              /\ ret.v.books[i].title = lib.books[i].title
              /\ ret.v.books[i].author = lib.books[i].author
              /\ ret.v.books[i].year = lib.books[i].year

C8_Witness ==
    /\ op = "load_library_json of save_library_json"
    /\ ~ReadFailed
    /\ Len(lib.books) = 2
    /\ lib.books[1].title = <<Quote, "C">>
    /\ lib.books[2].year = 1001
    /\ ret.v = lib

\* The raw text a workflow works on: the argument of parse_json_to_library,
\* the stripped reply of the service in generate_and_parse_library.
RawText == IF op = "generate_and_parse_library" THEN Strip(arg.text) ELSE arg.text

\* A cleaning, parsing or validation failure: the workflow returned None
\* although it had a text to work on.
DataError ==
    /\ op \in ParseOps
    /\ ret.ok /\ ret.none
    /\ op = "generate_and_parse_library" => (arg.kind # "api error" /\ RawText # <<>>)

\* A printed line shows the text: it interpolates it, or it interpolates a
\* validation error that quotes it as the offending input.
Shows(line, text) ==
    \/ "str" \in DOMAIN line /\ line.str = text
    \/ /\ "e" \in DOMAIN line
       /\ line.e.exc = "ValidationError"
       /\ \E k \in 1..Len(line.e.msg.errs) : line.e.msg.errs[k].input = text

\* C10: after a data error in parse_json_to_library or in
\* generate_and_parse_library, what the call printed includes the raw text.
C10_DataErrorShowsRawText ==
    DataError => \E i \in 1..Len(out) : Shows(out[i], RawText)

(***************************************************************************)
(* generate_and_parse_library, statement by statement.  op is the line the *)
(* call has reached, ret holds its local variables until it returns, calls *)
(* counts the generation requests issued since the call began.             *)
(***************************************************************************)
\* The local variables of the call: raw_response, cleaned_json, the
\* exception being handled, and the value the call is about to return.
Locals(raw, cleaned, e, result) ==
    [raw_response |-> raw, cleaned_json |-> cleaned, e |-> e, result |-> result]

AtGenerate == "generate_and_parse_library: line 23"
AtCheck    == "generate_and_parse_library: line 24"
AtClean    == "generate_and_parse_library: line 30"
AtValidate == "generate_and_parse_library: line 34"
AtExcept   == "generate_and_parse_library: line 39"
AtReturn   == "generate_and_parse_library: return"

\* Where the call goes once the except clause has printed its two lines.
AfterHandlerRetry == AtGenerate

AfterHandler == AtReturn

\* line 20: the call begins.
GaplBegin(api) ==
    /\ op = "init"
    /\ lib = None
    /\ op' = AtGenerate
    /\ arg' = api
    /\ ret' = Locals(None, None, None, None)
    /\ out' = <<Line("Generating library data")>>
    /\ calls' = 0
    /\ UNCHANGED <<book, lib, files>>

\* line 23: raw_response = self.gemini_client.generate_library_data(num_books)
GaplGenerate ==
    /\ op = AtGenerate
    /\ \E e \in {generate_library_data(arg)} :
          /\ calls' = calls + e.calls
          /\ out' = out \o e.out
          /\ IF e.ret.ok
             THEN op' = AtCheck /\ ret' = [ret EXCEPT !.raw_response = e.ret]
             ELSE op' = AtReturn /\ ret' = [ret EXCEPT !.result = e.ret]
    /\ UNCHANGED <<arg, book, lib, files>>

\* lines 24-26: if not raw_response
GaplCheck ==
    /\ op = AtCheck
    /\ IF ret.raw_response.none \/ ret.raw_response.v = <<>>
       THEN /\ op' = AtReturn
            /\ out' = out \o <<Line("Failed to generate data from Gemini")>>
            /\ ret' = [ret EXCEPT !.result = ReturnedNone]
       ELSE /\ op' = AtClean
            /\ UNCHANGED <<out, ret>>
    /\ UNCHANGED <<arg, book, lib, files, calls>>

\* lines 30-31: cleaned_json = self.json_cleaner.clean_json_response(raw_response)
GaplClean ==
    /\ op = AtClean
    /\ \E c \in {clean_json_response(ret.raw_response.v)} :
          IF c.ok
          THEN /\ op' = AtValidate
               /\ ret' = [ret EXCEPT !.cleaned_json = c]
               /\ out' = out \o <<Line("JSON cleaned successfully")>>
          ELSE /\ op' = AtExcept
               /\ ret' = [ret EXCEPT !.e = c]
               /\ out' = out
    /\ UNCHANGED <<arg, book, lib, files, calls>>

\* lines 34-37: library = Library.model_validate_json(cleaned_json)
GaplValidate ==
    /\ op = AtValidate
    /\ \E l \in {model_validate_json(ret.cleaned_json.v)} :
          IF l.ok
          THEN /\ op' = AtReturn
               /\ ret' = [ret EXCEPT !.result = l]
               /\ out' = out \o <<Line("Data validated and parsed successfully!")>>
          ELSE /\ op' = AtExcept
               /\ ret' = [ret EXCEPT !.e = l]
               /\ out' = out
    /\ UNCHANGED <<arg, book, lib, files, calls>>

\* lines 39-42: except Exception as e
GaplExcept ==
    /\ op = AtExcept
    /\ IF IsSubclass(ret.e.exc, ProcessorHandler)
       THEN /\ op' = AfterHandler
            /\ out' = out \o <<[text |-> "Error processing data", e |-> ret.e]>>
                          \o RawResponseLine(ret.raw_response.v)
            /\ ret' = [ret EXCEPT !.result = ReturnedNone]
       ELSE /\ op' = AtReturn
            /\ out' = out
            /\ ret' = [ret EXCEPT !.result = ret.e]
    /\ UNCHANGED <<arg, book, lib, files, calls>>

\* The call returns (or raises) to its caller.
GaplReturn ==
    /\ op = AtReturn
    /\ op' = "generate_and_parse_library"
    /\ ret' = ret.result
    /\ UNCHANGED <<arg, out, book, lib, files, calls>>

\* The caller drops the result once the call is over.
GaplDiscard == op = "generate_and_parse_library" /\ Discard

NextWorkflow ==
    \/ \E api \in ApiReplies : GaplBegin(api)
    \/ GaplGenerate
    \/ GaplCheck
    \/ GaplClean
    \/ GaplValidate
    \/ GaplExcept
    \/ GaplReturn
    \/ GaplDiscard

SpecWorkflow == InitIdle /\ [][NextWorkflow]_vars

(***************************************************************************)
(* Claims about the workflow, checked under SpecWorkflow.                  *)
(***************************************************************************)
GaplLines == {AtGenerate, AtCheck, AtClean, AtValidate, AtExcept, AtReturn}

InWorkflow == op \in GaplLines \cup {"generate_and_parse_library"}

Printed(text) == \E k \in 1..Len(out) : out[k].text = text

\* The request failed, or it answered with a text that is empty once stripped.
RequestGaveNothing == arg.kind = "error" \/ Strip(arg.text) = <<>>

\* The statement-by-statement call ends as the call taken as a whole does.
GaplAsAWhole ==
    op = "generate_and_parse_library" =>
        LET e == generate_and_parse_library(arg)
        IN  ret = e.ret /\ out = e.out /\ calls = e.calls

\* C11: within one call of generate_and_parse_library the request is issued
\* at most once, and only by line 23 when none has been issued yet; the
\* cleaning and validation stages run only on a non-empty response; a call
\* whose request failed or gave an empty text returns None with neither
\* stage run; and from the except clause (a failure of cleaning or of
\* validation) the call goes to its return, issuing no request.
C11_NoRetry ==
    /\ [](InWorkflow =>
            /\ calls <= 1
            /\ (op \in {AtClean, AtValidate, AtExcept}) =>
                  /\ calls = 1
                  /\ ~RequestGaveNothing
                  /\ ret.raw_response.ok /\ ~ret.raw_response.none
                  /\ ret.raw_response.v # <<>>
            /\ (op = "generate_and_parse_library" /\ RequestGaveNothing) =>
                  /\ ret = ReturnedNone
                  /\ ~Printed("JSON cleaned successfully")
                  /\ ~Printed("Data validated and parsed successfully!")
                  /\ ~Printed("Error processing data"))
    /\ [][/\ (InWorkflow /\ op' # "init" /\ calls' # calls) =>
                (op = AtGenerate /\ calls = 0 /\ calls' = 1)
          /\ (op = AtCheck /\ RequestGaveNothing) =>
                (op' = AtReturn /\ ret'.result = ReturnedNone)
          /\ (op = AtExcept) =>
                (op' = AtReturn /\ ret'.result = ReturnedNone /\ calls' = calls)
          /\ (op = AtReturn) => (op' = "generate_and_parse_library" /\ calls' = calls)
         ]_vars

\* A call whose validation failed has returned None after one request.
C11_Witness ==
    /\ op = "generate_and_parse_library"
    /\ arg.kind = "text" /\ arg.input.kind = "json"
    /\ Printed("JSON cleaned successfully")
    /\ Printed("Error processing data")
    /\ ret = ReturnedNone
    /\ calls = 1

(***************************************************************************)
(* Claims about error handling, checked under SpecPipeline.                *)
(***************************************************************************)
\* The calls that answer None (or False) for a failure.
GuardedOps ==
    {"generate_library_data", "generate_and_parse_library", "parse_json_to_library",
     "parse_json_to_library of library_to_json", "load_library_json",
     "load_library_json of save_library_json", "save_library_json"}

\* An except clause of the call caught an exception of this class.
Caught(cls) == \E k \in 1..Len(out) : "e" \in DOMAIN out[k] /\ out[k].e.exc = cls

CaughtAny == \E k \in 1..Len(out) : "e" \in DOMAIN out[k]

\* The request of the client failed, or a stage of the call had nothing
\* valid to work on.
StageFailed ==
    \/ CaughtAny
    \/ op \in {"generate_library_data", "generate_and_parse_library"} /\ arg.kind = "api error"
    \/ op = "generate_and_parse_library" /\ arg.kind # "api error" /\ DataError
    \/ op = "parse_json_to_library" /\ arg.kind = "not json"

\* C12: none of the five functions raises: each returns a value, and after a
\* failure of a stage (the request, the cleaner, the schema, the file) that
\* value is None, or False for save_library_json, which returns True or
\* False and nothing else.
C12_NeverRaises ==
    op \in GuardedOps =>
        /\ ret.ok
        /\ op = "save_library_json" => (~ret.none /\ ret.v \in BOOLEAN)
        /\ StageFailed =>
              IF op = "save_library_json" THEN ret = Returned(FALSE) ELSE ret = ReturnedNone

\* load_library_json on a file that a failed write left empty: the schema
\* error is caught and the call returns None.
C12_Witness ==
    /\ op = "load_library_json"
    /\ files[arg] = <<>>
    /\ Caught("ValidationError")
    /\ ret = ReturnedNone

(***************************************************************************)
(* Loading a file that was not written by save_library_json: the content   *)
(* of the file is an input, any of the texts the pipeline is given.        *)
(***************************************************************************)
\* A file with this content is put in the output directory, where there was
\* none of that name.
PlaceFile(f, i) ==
    /\ op = "init"
    /\ files[f] = NoFile
    /\ op' = "file placed"
    /\ arg' = f
    /\ ret' = ReturnedNone
    /\ out' = <<>>
    /\ files' = [files EXCEPT ![f] = i.text]
    /\ UNCHANGED <<book, lib, calls>>

NextLoad ==
    \/ \E f \in FileNames, i \in Inputs : PlaceFile(f, i)
    \/ \E f \in FileNames, io \in {"ok", "open fails"} : CallLoadLibraryJson(f, io)
    \/ Discard

SpecLoad == InitIdle /\ [][NextLoad]_vars

(***************************************************************************)
(* Claims about loading, checked under SpecLoad.                           *)
(***************************************************************************)
\* load_library_json found the file and read it.
LoadedContent ==
    /\ op = "load_library_json"
    /\ files[arg] # NoFile
    /\ ~Caught("OSError")

HasFence(text) == StartsWith(Strip(text), Fence) \/ EndsWith(Strip(text), Fence)

\* C13: load_library_json on a file gives what parse_json_to_library gives
\* on the content of the file: the same Library, or None.
C13_LoadCleansLikeParse ==
    LoadedContent => ret = parse_json_to_library(files[arg]).ret

\* The two agree on every content that has no fence marker at either end.
LoadAgreesWithoutFence ==
    (LoadedContent /\ ~HasFence(files[arg])) => ret = parse_json_to_library(files[arg]).ret

(***************************************************************************)
(* analysis/data_analyzer.py.  A DataFrame is a record of columns, each a  *)
(* sequence with one entry per book; a dict is the sequence of its items   *)
(* in insertion order.                                                     *)
(***************************************************************************)
library_to_dataframe(library) ==
    [title  |-> [i \in 1..Len(library.books) |-> library.books[i].title],
     author |-> [i \in 1..Len(library.books) |-> library.books[i].author],
     year   |-> [i \in 1..Len(library.books) |-> library.books[i].year]]

\* (df['year'] // 10) * 10
Decade(year) == (year \div 10) * 10

\* Series.value_counts(): each distinct value of the column with the number
\* of rows that hold it.
ValueCounts(col) ==
    [v \in { col[i] : i \in 1..Len(col) } |-> Cardinality({ i \in 1..Len(col) : col[i] = v })]

RECURSIVE Ascending(_)
Ascending(S) ==
    IF S = {} THEN <<>>
    ELSE LET m == CHOOSE x \in S : \A y \in S : x <= y
         IN  <<m>> \o Ascending(S \ {m})

RECURSIVE Descending(_)
Descending(S) ==
    IF S = {} THEN <<>>
    ELSE LET m == CHOOSE x \in S : \A y \in S : x >= y
         IN  <<m>> \o Descending(S \ {m})

\* Series.sort_index(): the (index, value) pairs by ascending index.
SortIndexDescending(counts) ==
    LET idx == Descending(DOMAIN counts)
    IN  [j \in 1..Len(idx) |-> [index |-> idx[j], value |-> counts[idx[j]]]]

SortIndex(counts) ==
    LET idx == Ascending(DOMAIN counts)
    IN  [j \in 1..Len(idx) |-> [index |-> idx[j], value |-> counts[idx[j]]]]

\* f"{decade}s"
DecadeKey(decade) == NatText(decade) \o <<"s">>

decade_analysis(library) ==
    LET df == library_to_dataframe(library)
        decade == [i \in 1..Len(df.year) |-> Decade(df.year[i])]
        decade_counts == SortIndex(ValueCounts(decade))
    IN  [j \in 1..Len(decade_counts) |->
            [key |-> DecadeKey(decade_counts[j].index), value |-> decade_counts[j].value]]

\* The age categories of age_analysis.
IsClassic(year) == year < 1950

IsMidCentury(year) == year >= 1950 /\ year < 1980

IsModernThrough2000(year) == year >= 1980 /\ year <= 2000

IsModern(year) == year >= 1980 /\ year < 2000

IsContemporary(year) == year >= 2000

\* len(df[mask])
CountRows(col, Mask(_)) == Cardinality({ i \in 1..Len(col) : Mask(col[i]) })

RECURSIVE SumOf(_)
SumOf(col) == IF col = <<>> THEN 0 ELSE col[1] + SumOf(Tail(col))

\* round(x, 1) of x = num / den >= 0, in tenths: to the nearest tenth, a tie
\* to the even one.
RoundTenths(num, den) ==
    LET q == (10 * num) \div den
        r == (10 * num) % den
    IN  IF 2 * r < den THEN q
        ELSE IF 2 * r > den THEN q + 1
        ELSE IF q % 2 = 0 THEN q ELSE q + 1

\* Series.idxmin() / idxmax(): the first row that holds the least / greatest value.
IdxMin(col) == CHOOSE i \in 1..Len(col) :
                  /\ \A k \in 1..Len(col) : col[i] <= col[k]
                  /\ \A k \in 1..(i - 1) : col[k] # col[i]

IdxMax(col) == CHOOSE i \in 1..Len(col) :
                  /\ \A k \in 1..Len(col) : col[i] >= col[k]
                  /\ \A k \in 1..(i - 1) : col[k] # col[i]

\* average_age is in tenths of a year (nan for no book).
age_analysis(library) ==
    LET df == library_to_dataframe(library)
        n == Len(df.year)
        age == [i \in 1..n |-> CurrentYear - df.year[i]]
    IN  IF n = 0
        THEN Raised("ValueError", Msg("attempt to get argmin of an empty sequence"))
        ELSE Returned(
               [classic_books      |-> CountRows(df.year, IsClassic),
                mid_century_books  |-> CountRows(df.year, IsMidCentury),
                modern_books       |-> CountRows(df.year, IsModern),
                contemporary_books |-> CountRows(df.year, IsContemporary),
                average_age        |-> RoundTenths(SumOf(age), n),
                oldest_book |-> [title |-> df.title[IdxMin(df.year)],
                                 year  |-> df.year[IdxMin(df.year)],
                                 age   |-> CurrentYear - df.year[IdxMin(df.year)]],
                newest_book |-> [title |-> df.title[IdxMax(df.year)],
                                 year  |-> df.year[IdxMax(df.year)],
                                 age   |-> CurrentYear - df.year[IdxMax(df.year)]]])

(***************************************************************************)
(* The analyzer is called on a valid Library of at most MaxBooks books,    *)
(* their years drawn from both ends of each decade and of each age         *)
(* category, and on the library of the four books of 1920, 1955, 1985 and  *)
(* 2010.                                                                   *)
(***************************************************************************)
YearSamples == {1001, 1920, 1929, 1949, 1950, 1979, 1980, 1999, 2000, CurrentYear}

Titles == <<"a", "b", "c", "d", "e">>

LibraryOfYears(years) ==
    [name |-> <<"L">>,
     books |-> [i \in 1..Len(years) |->
                   [title |-> <<Titles[i]>>, author |-> <<"B">>, year |-> years[i]]]]

ExampleYears == <<1920, 1955, 1985, 2010>>

AnalyzerLibraries ==
    { LibraryOfYears(ys) : ys \in UNION { [1..k -> YearSamples] : k \in 0..MaxBooks } }
        \cup { LibraryOfYears(ExampleYears) }

CallDecadeAnalysis(library) ==
    /\ op = "init"
    /\ op' = "decade_analysis"
    /\ arg' = library
    /\ ret' = Returned(decade_analysis(library))
    /\ UNCHANGED <<out, book, lib, files, calls>>

CallAgeAnalysis(library) ==
    /\ op = "init"
    /\ op' = "age_analysis"
    /\ arg' = library
    /\ ret' = age_analysis(library)
    /\ UNCHANGED <<out, book, lib, files, calls>>

NextAnalyzer ==
    \/ \E l \in AnalyzerLibraries : CallDecadeAnalysis(l)
    \/ \E l \in AnalyzerLibraries : CallAgeAnalysis(l)
    \/ Discard

SpecAnalyzer == InitIdle /\ [][NextAnalyzer]_vars

(***************************************************************************)
(* Claims about the analyzer, checked under SpecAnalyzer.                  *)
(***************************************************************************)
YearsOf(library) == [i \in 1..Len(library.books) |-> library.books[i].year]

\* The decades (10 * floor(year / 10)) that occur among the years.
DecadesIn(years) == { 10 * (years[i] \div 10) : i \in 1..Len(years) }

InDecade(years, d) == { i \in 1..Len(years) : d <= years[i] /\ years[i] <= d + 9 }

\* C14: the result of decade_analysis has one item per decade that occurs
\* among the books, keyed "<d>s", in ascending order of d; its value is the
\* number of books with a year in [d, d + 9]; the values sum to the number
\* of books.
C14_DecadeBuckets ==
    op = "decade_analysis" =>
        LET years == YearsOf(arg)
            D == DecadesIn(years)
            r == ret.v
        IN  /\ Len(r) = Cardinality(D)
            /\ \E ds \in [1..Len(r) -> D] :
                  /\ \A j, k \in 1..Len(r) : j < k => ds[j] < ds[k]
                  /\ \A j \in 1..Len(r) :
                        /\ r[j].key = NatText(ds[j]) \o <<"s">>
                        /\ r[j].value = Cardinality(InDecade(years, ds[j]))
            /\ SumOf([j \in 1..Len(r) |-> r[j].value]) = Len(years)

\* The four books of the example give one book in each of four decades.
C14_Witness ==
    /\ op = "decade_analysis"
    /\ YearsOf(arg) = ExampleYears
    /\ ret.v = << [key |-> <<"1", "9", "2", "0", "s">>, value |-> 1],
                  [key |-> <<"1", "9", "5", "0", "s">>, value |-> 1],
                  [key |-> <<"1", "9", "8", "0", "s">>, value |-> 1],
                  [key |-> <<"2", "0", "1", "0", "s">>, value |-> 1] >>

\* The number of age categories, as the claim bounds them, that hold the year.
CategoriesOf(year) ==
    Cardinality({ c \in {"classic", "mid-century", "modern", "contemporary"} :
                    \/ c = "classic" /\ year < 1950
                    \/ c = "mid-century" /\ 1950 <= year /\ year < 1980
                    \/ c = "modern" /\ 1980 <= year /\ year < 2000
                    \/ c = "contemporary" /\ year >= 2000 })

\* C15: for a Library with at least one book, the four counts of
\* age_analysis are the numbers of books with year < 1950, in [1950, 1980),
\* in [1980, 2000) and >= 2000; every book is in exactly one of these, and
\* the counts sum to the number of books.
C15_AgePartition ==
    (op = "age_analysis" /\ arg.books # <<>>) =>
        LET years == YearsOf(arg)
            N(P(_)) == Cardinality({ i \in 1..Len(years) : P(years[i]) })
        IN  /\ ret.ok
            /\ \A i \in 1..Len(years) : CategoriesOf(years[i]) = 1
            /\ ret.v.classic_books = N(LAMBDA y : y < 1950)
            /\ ret.v.mid_century_books = N(LAMBDA y : 1950 <= y /\ y < 1980)
            /\ ret.v.modern_books = N(LAMBDA y : 1980 <= y /\ y < 2000)
            /\ ret.v.contemporary_books = N(LAMBDA y : y >= 2000)
            /\ ret.v.classic_books + ret.v.mid_century_books
                 + ret.v.modern_books + ret.v.contemporary_books = Len(years)

\* The four books of the example give one book in each category.
C15_Witness ==
    /\ op = "age_analysis"
    /\ YearsOf(arg) = ExampleYears
    /\ ret.ok
    /\ ret.v.classic_books = 1 /\ ret.v.mid_century_books = 1
    /\ ret.v.modern_books = 1 /\ ret.v.contemporary_books = 1

(***************************************************************************)
(* The output directory over several saves: the caller holds one valid     *)
(* Library after another and saves each under one of two file names; arg   *)
(* records the arguments of the save and the directory as it was before.   *)
(***************************************************************************)
StoreFileNames == {"library_data.json", "basic_example_library.json"}

\* Libraries whose JSON texts differ in length: the first k books of the
\* example, under one of two names.
StoreLibraries ==
    { [LibraryOfYears(SubSeq(ExampleYears, 1, k)) EXCEPT !.name = n] :
        k \in 0..MaxBooks, n \in {<<"L">>, <<"M", "y">>} }

InitStore ==
    /\ op = "init"
    /\ arg = <<>>
    /\ ret = ReturnedNone
    /\ out = <<>>
    /\ book = None
    /\ lib = None
    /\ files = [f \in StoreFileNames |-> NoFile]
    /\ calls = 0

\* library = ...: the caller now holds this Library.
StoreHold(l) ==
    /\ op = "init"
    /\ lib # l
    /\ lib' = l
    /\ UNCHANGED <<op, arg, ret, out, book, files, calls>>

StoreSave(f, io) ==
    /\ op = "init"
    /\ lib # None
    /\ op' = "save_library_json"
    /\ arg' = [filename |-> f, library |-> lib, before |-> files]
    /\ \E e \in {save_library_json(files, lib, f, io)} :
          ret' = e.ret /\ out' = e.out /\ files' = e.files
    /\ UNCHANGED <<book, lib, calls>>

\* The caller loads the file it has just saved.
StoreLoad(io) ==
    /\ op = "save_library_json"
    /\ ret = Returned(TRUE)
    /\ op' = "load_library_json of save_library_json"
    /\ \E e \in {load_library_json(files, arg.filename, io)} : ret' = e.ret /\ out' = e.out
    /\ UNCHANGED <<arg, book, lib, files, calls>>

NextStore ==
    \/ \E l \in StoreLibraries : StoreHold(l)
    \/ \E f \in StoreFileNames, io \in IoOutcomes : StoreSave(f, io)
    \/ \E io \in {"ok", "open fails"} : StoreLoad(io)
    \/ Discard

SpecStore == InitStore /\ [][NextStore]_vars

(***************************************************************************)
(* Claims about the output directory, checked under SpecStore.             *)
(***************************************************************************)
OtherFilesAsBefore ==
    \A g \in StoreFileNames \ {arg.filename} : files[g] = arg.before[g]

\* C16: after a successful save the file holds the JSON text of the Library
\* just saved and nothing else, whatever it held before, and loading it
\* (when it can be read) returns a Library equal to that one; a save,
\* successful or not, leaves every other file as it was.
C16_WholeFileOverwrite ==
    /\ op = "save_library_json" => OtherFilesAsBefore
    /\ (op = "save_library_json" /\ ret = Returned(TRUE)) =>
          /\ files[arg.filename] = model_dump_json(arg.library, 4)
          /\ load_library_json(files, arg.filename, "ok").ret = Returned(arg.library)
    /\ (op = "load_library_json of save_library_json" /\ ~Caught("OSError")) =>
          /\ ret.ok /\ ~ret.none
          /\ ret.v.name = arg.library.name
          /\ Len(ret.v.books) = Len(arg.library.books)
          /\ \A i \in 1..Len(ret.v.books) :
                /\ ret.v.books[i].title = arg.library.books[i].title
                /\ ret.v.books[i].author = arg.library.books[i].author
                /\ ret.v.books[i].year = arg.library.books[i].year
          /\ OtherFilesAsBefore

\* A save over a longer file of an earlier save, with another Library in
\* the other file, then the load.
C16_Witness ==
    /\ op = "load_library_json of save_library_json"
    /\ ret = Returned(arg.library)
    /\ arg.before[arg.filename] \notin {NoFile, <<>>}
    /\ Len(arg.before[arg.filename]) > Len(files[arg.filename])
    /\ \E g \in StoreFileNames \ {arg.filename} :
          files[g] \notin {NoFile, <<>>, files[arg.filename]}

(***************************************************************************)
(* Book and Library together: both are built from Python values and both   *)
(* validate assignments (Config.validate_assignment = True in each).       *)
(***************************************************************************)
\* Library(name=..., books=[...])
LibraryNew(name, books) ==
    Bind(ValidateLibrary(JObj(<<Member(KeyName, name), Member(KeyBooks, books)>>)),
         LAMBDA l : IF l.ok THEN Returned(l.v) ELSE ValidationError(l.errs))

CallLibrary(name) ==
    /\ op = "init"
    /\ lib = None
    /\ op' = "Library"
    /\ arg' = name
    /\ ret' = LibraryNew(JStr(name), JArr(<<>>))
    /\ lib' = IF ret'.ok THEN ret'.v ELSE lib
    /\ UNCHANGED <<out, book, files, calls>>

AssignName(v) ==
    /\ op = "init"
    /\ lib # None
    /\ op' = "library.name ="
    /\ arg' = v
    /\ ret' = AssignResult(StrValue(JStr(v), <<"name">>))
    /\ lib' = SetAttr(lib, "name", v, StrValue(JStr(v), <<"name">>))
    /\ UNCHANGED <<out, book, files, calls>>

NextModels ==
    \/ \E t \in StrArgs, a \in StrArgs, y \in YearArgs : CallBook(t, a, y)
    \/ \E v \in StrArgs : AssignTitle(v)
    \/ \E v \in StrArgs : AssignAuthor(v)
    \/ \E y \in YearArgs : AssignYear(y)
    \/ \E n \in StrArgs : CallLibrary(n)
    \/ \E v \in StrArgs : AssignName(v)
    \/ Discard

SpecModels == InitIdle /\ [][NextModels]_vars

(***************************************************************************)
(* Claims about assignment, checked under SpecModels.                      *)
(***************************************************************************)
StrAssignOps == {"book.title =", "book.author =", "library.name ="}

\* The value assigned is one the claim calls invalid: an empty or
\* whitespace-only string, a year below 1000 or after the current year.
InvalidAssigned(o, value) ==
    \/ o \in StrAssignOps /\ Strip(value) = <<>>
    \/ o = "book.year =" /\ (value < 1000 \/ value > CurrentYear)

\* C17: a Book and a Library that exist hold valid fields in every state
\* (non-empty title, author and name, year after 1000 and not after the
\* current year), whatever was assigned; an assignment of an invalid value
\* raises ValidationError and leaves the Book and the Library as they were.
C17_ValidUnderAssignment ==
    /\ [](/\ book # None =>
               /\ Len(book.title) >= 1 /\ Len(book.author) >= 1
               /\ NonEmpty(book.title) /\ NonEmpty(book.author)
               /\ book.year > 1000 /\ book.year <= CurrentYear
          /\ lib # None => (Len(lib.name) >= 1 /\ NonEmpty(lib.name)))
    /\ [][(op' \in StrAssignOps \cup {"book.year ="} /\ op = "init"
             /\ InvalidAssigned(op', arg')) =>
               /\ ~ret'.ok
               /\ ret'.exc = "ValidationError"
               /\ book' = book
               /\ lib' = lib]_vars

\* A whitespace-only name was assigned to a Library, next to a Book that
\* exists: the assignment was rejected.
C17_Witness ==
    /\ op = "library.name ="
    /\ arg = <<" ">>
    /\ ~ret.ok
    /\ lib # None /\ book # None

====
